---- MODULE Spec2Model ----
(***************************************************************************)
(* A model of the Scrapegraph-ai smart scraper core:                       *)
(*   - GenerateAnswerNode.execute (nodes/generate_answer_node.py): the     *)
(*     output-parser selection, the template-family selection and the      *)
(*     single-chunk / map-merge algorithm with its concurrent batch;       *)
(*   - SmartScraperGraph._create_graph and run                             *)
(*     (graphs/smart_scraper_graph.py): the topology selection.            *)
(*                                                                         *)
(* Python values are modelled as strings where the code compares them by   *)
(* identity ("True", "False", "None" for config.get results) and classes   *)
(* by their names.  isinstance is modelled on the class names listed in    *)
(* the code, each class being distinct from the others.                    *)
(***************************************************************************)
EXTENDS Integers, Sequences, FiniteSets, TLC

VARIABLES
    \* ---- GenerateAnswerNode instance (attributes set by __init__) ----
    llm_model,            \* self.llm_model: class name of the current handle
    schema,               \* node_config["schema"] is not None
    force,                \* self.force
    script_creator,       \* self.script_creator
    is_md_scraper,        \* self.is_md_scraper
    \* ---- one call of execute ----
    doc,                  \* input_data[1]: the sequence of chunks
    pc,                   \* position of execute
    llm_in,               \* self.llm_model when execute was entered
    output_parser,        \* local output_parser
    format_instructions,  \* local format_instructions
    template_family,      \* which TEMPLATE_* triple was bound
    finished,             \* per batch input: chains that have returned
    failed,               \* per batch input: some chain raised
    completion_order,     \* batch inputs in the order their invoke returned
    batch_results,        \* local batch_results
    merge_context,        \* the "context" passed to merge_chain.invoke
    single_calls,         \* chain.invoke calls of the single-chunk path
    merge_calls,          \* merge_chain.invoke calls
    answer,               \* state[self.output[0]], "absent" when not written
    executions,           \* completed calls of execute on this instance
    previous,             \* what the previous call of execute selected
    \* ---- SmartScraperGraph ----
    html_mode,            \* self.config.get("html_mode")
    reasoning,            \* self.config.get("reasoning")
    source,               \* self.source, a string as a sequence of characters
    input_key,            \* self.input_key
    graph,                \* the BaseGraph returned by _create_graph
    gpc,                  \* position of the SmartScraperGraph object
    state,                \* the state dict the executor threads through
    current,              \* the node the executor is at
    run_result            \* what run returned

nodeVars == <<llm_model, schema, force, script_creator, is_md_scraper>>
execVars == <<doc, pc, llm_in, output_parser, format_instructions,
              template_family, finished, failed, completion_order,
              batch_results, merge_context, single_calls, merge_calls,
              answer, executions, previous>>
graphVars == <<html_mode, reasoning, source, input_key, graph, gpc, state,
               current, run_result>>
vars == <<nodeVars, execVars, graphVars>>

(***************************************************************************)
(* Bounds of the model.                                                    *)
(***************************************************************************)
MaxChunks == 3
MaxExecutions == 1
MaxChunksNode == 2

(***************************************************************************)
(* The capability classes the code dispatches on (imports, lines 9-12),    *)
(* and the object with_structured_output returns, which is an instance of  *)
(* none of them.                                                           *)
(***************************************************************************)
LLMClasses ==
    {"ChatOpenAI", "AzureChatOpenAI", "ChatMistralAI", "ChatBedrock", "ChatOllama"}

StructuredWrapper == "RunnableSequence"

(***************************************************************************)
(* The isinstance tests of the parser selection.                           *)
(***************************************************************************)
\* line 80: isinstance(self.llm_model, (ChatOpenAI, ChatMistralAI))
SupportsNativeStructuredOutput(h) == h \in {"ChatOpenAI", "ChatMistralAI"}

\* lines 87 and 94: not isinstance(self.llm_model, ChatBedrock)
SupportsTextFormatInstructions(h) == h # "ChatBedrock"

(***************************************************************************)
(* Output-parser selection, lines 79-99.  h is self.llm_model on entry,    *)
(* s tells whether node_config["schema"] is not None.                      *)
(***************************************************************************)
OutputParser_NoBedrockCheck(h, s) ==
    IF s
    THEN IF SupportsNativeStructuredOutput(h)
         THEN "structured_output_parser"
         ELSE "pydantic_output_parser"
    ELSE IF SupportsTextFormatInstructions(h)
         THEN "JsonOutputParser"
         ELSE "None"

OutputParser(h, s) ==
    IF s
    THEN IF SupportsNativeStructuredOutput(h)
         THEN "structured_output_parser"
         ELSE IF SupportsTextFormatInstructions(h)
              THEN "pydantic_output_parser"
              ELSE "None"
    ELSE IF SupportsTextFormatInstructions(h)
         THEN "JsonOutputParser"
         ELSE "None"

\* "NA" is the literal of line 85, "" the literal of lines 92 and 99; the two
\* other values stand for output_parser.get_format_instructions() of the
\* parser chosen (lines 89 and 96).
FormatInstructions(h, s) ==
    IF s
    THEN IF SupportsNativeStructuredOutput(h)
         THEN "NA"
         ELSE IF SupportsTextFormatInstructions(h)
              THEN "pydantic_format_instructions"
              ELSE ""
    ELSE IF SupportsTextFormatInstructions(h)
         THEN "json_format_instructions"
         ELSE ""

\* lines 81-83: self.llm_model is rebound to the structured-output wrapper
LlmAfterSelection(h, s) ==
    IF s /\ SupportsNativeStructuredOutput(h) THEN StructuredWrapper ELSE h

(***************************************************************************)
(* Template-family selection, lines 101-111, with Python's precedence:     *)
(* `and` binds tighter than `or`, so the condition reads                   *)
(*   (isinstance(..) and not sc) or (force and not sc) or is_md_scraper.   *)
(* h is self.llm_model at line 101, that is after lines 79-99 ran.         *)
(***************************************************************************)
TemplateFamily(h, f, sc, md) ==
    IF \/ (h \in {"ChatOpenAI", "AzureChatOpenAI"} /\ ~sc)
       \/ (f /\ ~sc)
       \/ md
    THEN "MD"
    ELSE "PLAIN"

(***************************************************************************)
(* The map/merge algorithm, lines 118-168.                                 *)
(***************************************************************************)
\* line 118: len(doc) == 1
IsSingleChunk_Never(d) == FALSE

IsSingleChunk(d) == Len(d) = 1

\* lines 138-149: chains_dict gets one chain per chunk, "chunk1".."chunkn".
\* RunnableParallel(**chains_dict).batch(inputs) (lines 151-152) calls
\* RunnableParallel.invoke once per input, and each such invoke runs every
\* chain of chains_dict on that input.
NumChains(d) == Len(d)

\* lines 139-147: the chain of every label is the same chat_template | llm;
\* run on batch input i it is asked "Content of {chunk_id}:\n{context}" with
\* chunk_id = i and context = doc[i] (line 145).  The capability's reply is
\* kept as the request it answers.
ChainResult(d, i) == [chunk_id |-> i, context |-> d[i]]

\* RunnableParallel.invoke: a dict label -> result of that label's chain
InvokeResult(d, i) == [k \in 1..NumChains(d) |-> ChainResult(d, i)]

\* Runnable.batch returns list(executor.map(invoke, inputs)): the results in
\* the order of the inputs, whatever the order of completion.
CollectResults_CompletionOrder(d, order) ==
    [i \in 1..Len(d) |-> InvokeResult(d, order[i])]

CollectResults(d, order) ==
    [i \in 1..Len(d) |-> InvokeResult(d, i)]

\* batch returns when the executors have been shut down, which waits for
\* every submitted invocation.
BatchComplete_FirstOnly ==
    \A i \in 1..Len(doc) : i = 1 => finished[i] = NumChains(doc)

BatchComplete ==
    \A i \in 1..Len(doc) : finished[i] = NumChains(doc)

\* batch is called without return_exceptions: an exception of any chain is
\* re-raised out of batch and so out of execute.
BatchRaises_Swallowed == FALSE

BatchRaises_OnEmpty == Len(doc) = 0 \/ \E i \in 1..Len(doc) : failed[i]

BatchRaises == \E i \in 1..Len(doc) : failed[i]

\* capability invocations made through the chunk chains so far
RECURSIVE SumTo(_, _)
SumTo(f, n) == IF n = 0 THEN 0 ELSE f[n] + SumTo(f, n - 1)

ChunkInvocations == SumTo(finished, Len(finished))

(***************************************************************************)
(* execute, from its entry to the call that blocks (lines 72-152).  The    *)
(* parser and the template family are selected, self.llm_model is rebound, *)
(* and either the single chain is invoked (line 130) or the batch of the   *)
(* chunk chains is started (line 152).                                     *)
(***************************************************************************)
NoAnswer == [kind |-> "absent"]

Begin ==
    /\ pc = "idle"
    /\ llm_in' = llm_model
    /\ output_parser' = OutputParser(llm_model, schema)
    /\ format_instructions' = FormatInstructions(llm_model, schema)
    /\ llm_model' = LlmAfterSelection(llm_model, schema)
    /\ template_family' =
           TemplateFamily(llm_model', force, script_creator, is_md_scraper)
    /\ IF IsSingleChunk(doc)
       THEN /\ pc' = "single"
            /\ single_calls' = single_calls + 1
            /\ UNCHANGED <<finished, failed>>
       ELSE /\ pc' = "batch"
            /\ finished' = [i \in 1..Len(doc) |-> 0]
            /\ failed' = [i \in 1..Len(doc) |-> FALSE]
            /\ UNCHANGED single_calls
    /\ UNCHANGED <<schema, force, script_creator, is_md_scraper, doc,
                   completion_order, batch_results, merge_context,
                   merge_calls, answer, executions, previous,
                   graphVars>>

\* line 130 returns; lines 132-133
SingleReturns ==
    /\ pc = "single"
    /\ answer' = [kind |-> "single", context |-> doc[1]]
    /\ pc' = "done"
    /\ UNCHANGED <<nodeVars, doc, llm_in, output_parser, format_instructions,
                   template_family, finished, failed, completion_order,
                   batch_results, merge_context, single_calls, merge_calls,
                   executions, previous,
                   graphVars>>

\* line 130 raises: the exception leaves execute
SingleRaises ==
    /\ pc = "single"
    /\ pc' = "raised"
    /\ UNCHANGED <<nodeVars, doc, llm_in, output_parser, format_instructions,
                   template_family, finished, failed, completion_order,
                   batch_results, merge_context, single_calls, merge_calls,
                   answer, executions, previous,
                   graphVars>>

\* One chain of the RunnableParallel.invoke of batch input i finishes.  The
\* invoke of input i is over when all its chains are.
ChainFinishes(i, ok) ==
    /\ pc = "batch"
    /\ finished[i] < NumChains(doc)
    /\ finished' = [finished EXCEPT ![i] = @ + 1]
    /\ failed' = [failed EXCEPT ![i] = @ \/ ~ok]
    /\ completion_order' =
           IF finished[i] + 1 = NumChains(doc)
           THEN Append(completion_order, i)
           ELSE completion_order
    /\ UNCHANGED <<nodeVars, doc, pc, llm_in, output_parser,
                   format_instructions, template_family, batch_results,
                   merge_context, single_calls, merge_calls, answer,
                   executions, previous,
                   graphVars>>

ChainReturns == \E i \in 1..Len(doc) : ChainFinishes(i, TRUE)

ChainRaises == \E i \in 1..Len(doc) : ChainFinishes(i, FALSE)

\* line 152 returns batch_results; lines 154-165 build the merge chain and
\* call merge_chain.invoke({"context": batch_results})
BatchReturns ==
    /\ pc = "batch"
    /\ BatchComplete
    /\ ~BatchRaises
    /\ batch_results' = CollectResults(doc, completion_order)
    /\ merge_context' = batch_results'
    /\ merge_calls' = merge_calls + 1
    /\ pc' = "merge"
    /\ UNCHANGED <<nodeVars, doc, llm_in, output_parser, format_instructions,
                   template_family, finished, failed, completion_order,
                   single_calls, answer, executions, previous,
                   graphVars>>

\* line 152 raises: the exception leaves execute
BatchRaise ==
    /\ pc = "batch"
    /\ BatchComplete
    /\ BatchRaises
    /\ pc' = "raised"
    /\ UNCHANGED <<nodeVars, doc, llm_in, output_parser, format_instructions,
                   template_family, finished, failed, completion_order,
                   batch_results, merge_context, single_calls, merge_calls,
                   answer, executions, previous,
                   graphVars>>

\* line 165 returns; lines 167-168
MergeReturns ==
    /\ pc = "merge"
    /\ answer' = [kind |-> "merge", context |-> merge_context]
    /\ pc' = "done"
    /\ UNCHANGED <<nodeVars, doc, llm_in, output_parser, format_instructions,
                   template_family, finished, failed, completion_order,
                   batch_results, merge_context, single_calls, merge_calls,
                   executions, previous,
                   graphVars>>

\* line 165 raises
MergeRaises ==
    /\ pc = "merge"
    /\ pc' = "raised"
    /\ UNCHANGED <<nodeVars, doc, llm_in, output_parser, format_instructions,
                   template_family, finished, failed, completion_order,
                   batch_results, merge_context, single_calls, merge_calls,
                   answer, executions, previous,
                   graphVars>>

\* The graph is run again (SmartScraperGraph.run, line 184): the same node
\* instance executes on a fresh state with the same input.
Reexecute ==
    /\ pc \in {"done", "raised"}
    /\ executions < MaxExecutions
    /\ executions' = executions + 1
    /\ previous' = [kind |-> "selection",
                    output_parser |-> output_parser,
                    format_instructions |-> format_instructions,
                    template_family |-> template_family]
    /\ pc' = "idle"
    /\ llm_in' = "unset"
    /\ output_parser' = "unset"
    /\ format_instructions' = "unset"
    /\ template_family' = "unset"
    /\ finished' = <<>>
    /\ failed' = <<>>
    /\ completion_order' = <<>>
    /\ batch_results' = <<>>
    /\ merge_context' = <<>>
    /\ single_calls' = 0
    /\ merge_calls' = 0
    /\ answer' = NoAnswer
    /\ UNCHANGED <<nodeVars, doc, graphVars>>

NextExec ==
    \/ Begin
    \/ SingleReturns
    \/ SingleRaises
    \/ ChainReturns
    \/ ChainRaises
    \/ BatchReturns
    \/ BatchRaise
    \/ MergeReturns
    \/ MergeRaises
    \/ Reexecute

(***************************************************************************)
(* Initial states.                                                         *)
(***************************************************************************)
Docs(max) == {[i \in 1..n |-> i] : n \in 0..max}

NoGraph == [nodes |-> <<>>, edges |-> <<>>, entry_point |-> "None"]

ExecIdle ==
    /\ pc = "idle"
    /\ llm_in = "unset"
    /\ output_parser = "unset"
    /\ format_instructions = "unset"
    /\ template_family = "unset"
    /\ finished = <<>>
    /\ failed = <<>>
    /\ completion_order = <<>>
    /\ batch_results = <<>>
    /\ merge_context = <<>>
    /\ single_calls = 0
    /\ merge_calls = 0
    /\ answer = NoAnswer
    /\ executions = 0
    /\ previous = [kind |-> "none"]

\* run has not returned
NotReturned == [kind |-> "unset"]

GraphUnused ==
    /\ html_mode = "None"
    /\ reasoning = "None"
    /\ source = <<>>
    /\ input_key = "unset"
    /\ graph = NoGraph
    /\ gpc = "unused"
    /\ state = <<>>
    /\ current = "None"
    /\ run_result = NotReturned

\* The GenerateAnswerNode as SmartScraperGraph._create_graph constructs it
\* (lines 83-91): node_config carries llm_model, additional_info and schema,
\* so force, script_creator and is_md_scraper take their defaults (lines
\* 56-58).
Init ==
    /\ llm_model \in LLMClasses
    /\ schema \in BOOLEAN
    /\ force = FALSE
    /\ script_creator = FALSE
    /\ is_md_scraper = FALSE
    /\ doc \in Docs(MaxChunks)
    /\ ExecIdle
    /\ GraphUnused

Spec == Init /\ [][NextExec]_vars

\* A GenerateAnswerNode constructed with any node_config (lines 50-59)
InitNode ==
    /\ llm_model \in LLMClasses
    /\ schema \in BOOLEAN
    /\ force \in BOOLEAN
    /\ script_creator \in BOOLEAN
    /\ is_md_scraper \in BOOLEAN
    /\ doc \in Docs(MaxChunksNode)
    /\ ExecIdle
    /\ GraphUnused

SpecNode == InitNode /\ [][NextExec]_vars

(***************************************************************************)
(* SmartScraperGraph (graphs/smart_scraper_graph.py)                       *)
(***************************************************************************)
\* The values self.config.get(flag) is compared with: the two booleans, and
\* None when the flag is omitted from the configuration.
FlagValues == {"True", "False", "None"}

\* str.startswith on strings as sequences of characters
StartsWith(str, prefix) ==
    /\ Len(str) >= Len(prefix)
    /\ SubSeq(str, 1, Len(prefix)) = prefix

\* line 52
InputKey(src) ==
    IF StartsWith(src, <<"h", "t", "t", "p">>) THEN "url" ELSE "local_dir"

\* The nodes _create_graph instantiates, by their class names, with the
\* input expression and the output keys each is given (lines 62-112).
\* required: the operands of &, all needed; any_of: the operands of |, in
\* their declared order.
NodeInput_DocFirst(node) ==
    CASE node = "FetchNode" ->
           [required |-> {}, any_of |-> <<"url", "local_dir">>]
      [] node = "ParseNode" ->
           [required |-> {}, any_of |-> <<"doc">>]
      [] node = "ReasoningNode" ->
           [required |-> {"user_prompt"},
            any_of |-> <<"relevant_chunks", "parsed_doc", "doc">>]
      [] node = "GenerateAnswerNode" ->
           [required |-> {"user_prompt"},
            any_of |-> <<"doc", "relevant_chunks", "parsed_doc">>]

NodeInput(node) ==
    CASE node = "FetchNode" ->
           [required |-> {}, any_of |-> <<"url", "local_dir">>]
      [] node = "ParseNode" ->
           [required |-> {}, any_of |-> <<"doc">>]
      [] node = "ReasoningNode" ->
           [required |-> {"user_prompt"},
            any_of |-> <<"relevant_chunks", "parsed_doc", "doc">>]
      [] node = "GenerateAnswerNode" ->
           [required |-> {"user_prompt"},
            any_of |-> <<"relevant_chunks", "parsed_doc", "doc">>]

NodeOutput_FetchWritesHtml(node) ==
    CASE node = "FetchNode" -> {"html"}
      [] node = "ParseNode" -> {"parsed_doc"}
      [] node = "ReasoningNode" -> {"answer"}
      [] node = "GenerateAnswerNode" -> {"answer"}

NodeOutput(node) ==
    CASE node = "FetchNode" -> {"doc"}
      [] node = "ParseNode" -> {"parsed_doc"}
      [] node = "ReasoningNode" -> {"answer"}
      [] node = "GenerateAnswerNode" -> {"answer"}

\* _create_graph, lines 114-173.  `x is True` and `x is False` are identity
\* tests: None satisfies neither.
CreateGraph_NoReasonOnRawBranch(hm, rs) ==
    IF hm = "False" /\ rs = "True"
    THEN [nodes |-> <<"FetchNode", "ParseNode", "ReasoningNode",
                      "GenerateAnswerNode">>,
          edges |-> << <<"FetchNode", "ParseNode">>,
                       <<"ParseNode", "ReasoningNode">>,
                       <<"ReasoningNode", "GenerateAnswerNode">> >>,
          entry_point |-> "FetchNode"]
    ELSE IF hm = "True" /\ rs = "False"
    THEN [nodes |-> <<"FetchNode", "GenerateAnswerNode">>,
          edges |-> << <<"FetchNode", "GenerateAnswerNode">> >>,
          entry_point |-> "FetchNode"]
    ELSE [nodes |-> <<"FetchNode", "ParseNode", "GenerateAnswerNode">>,
          edges |-> << <<"FetchNode", "ParseNode">>,
                       <<"ParseNode", "GenerateAnswerNode">> >>,
          entry_point |-> "FetchNode"]

CreateGraph_StaleEdge(hm, rs) ==
    IF hm = "False" /\ rs = "True"
    THEN [nodes |-> <<"FetchNode", "ParseNode", "ReasoningNode",
                      "GenerateAnswerNode">>,
          edges |-> << <<"FetchNode", "ParseNode">>,
                       <<"ParseNode", "ReasoningNode">>,
                       <<"ReasoningNode", "GenerateAnswerNode">> >>,
          entry_point |-> "FetchNode"]
    ELSE IF hm = "True" /\ rs = "True"
    THEN [nodes |-> <<"FetchNode", "ReasoningNode", "GenerateAnswerNode">>,
          edges |-> << <<"FetchNode", "ParseNode">>,
                       <<"ReasoningNode", "GenerateAnswerNode">> >>,
          entry_point |-> "FetchNode"]
    ELSE IF hm = "True" /\ rs = "False"
    THEN [nodes |-> <<"FetchNode", "GenerateAnswerNode">>,
          edges |-> << <<"FetchNode", "GenerateAnswerNode">> >>,
          entry_point |-> "FetchNode"]
    ELSE [nodes |-> <<"FetchNode", "ParseNode", "GenerateAnswerNode">>,
          edges |-> << <<"FetchNode", "ParseNode">>,
                       <<"ParseNode", "GenerateAnswerNode">> >>,
          entry_point |-> "FetchNode"]

CreateGraph(hm, rs) ==
    IF hm = "False" /\ rs = "True"
    THEN [nodes |-> <<"FetchNode", "ParseNode", "ReasoningNode",
                      "GenerateAnswerNode">>,
          edges |-> << <<"FetchNode", "ParseNode">>,
                       <<"ParseNode", "ReasoningNode">>,
                       <<"ReasoningNode", "GenerateAnswerNode">> >>,
          entry_point |-> "FetchNode"]
    ELSE IF hm = "True" /\ rs = "True"
    THEN [nodes |-> <<"FetchNode", "ReasoningNode", "GenerateAnswerNode">>,
          edges |-> << <<"FetchNode", "ReasoningNode">>,
                       <<"ReasoningNode", "GenerateAnswerNode">> >>,
          entry_point |-> "FetchNode"]
    ELSE IF hm = "True" /\ rs = "False"
    THEN [nodes |-> <<"FetchNode", "GenerateAnswerNode">>,
          edges |-> << <<"FetchNode", "GenerateAnswerNode">> >>,
          entry_point |-> "FetchNode"]
    ELSE [nodes |-> <<"FetchNode", "ParseNode", "GenerateAnswerNode">>,
          edges |-> << <<"FetchNode", "ParseNode">>,
                       <<"ParseNode", "GenerateAnswerNode">> >>,
          entry_point |-> "FetchNode"]

\* __init__, lines 49-52: the base class builds the graph with
\* _create_graph, then input_key is set.
Construct ==
    /\ gpc = "new"
    /\ graph' = CreateGraph(html_mode, reasoning)
    /\ input_key' = InputKey(source)
    /\ gpc' = "built"
    /\ UNCHANGED <<nodeVars, execVars, html_mode, reasoning, source, state,
                   current, run_result>>

(***************************************************************************)
(* The executor (BaseGraph.execute), after section 4.2 of the              *)
(* specification: from the entry point along the edges, each node resolves  *)
(* its input expression against the state, runs, and its output keys are   *)
(* merged into the state; a node that cannot resolve its input or that     *)
(* raises aborts the run.                                                  *)
(***************************************************************************)
Resolvable(sel, keys) ==
    /\ sel.required \subseteq keys
    /\ \E j \in 1..Len(sel.any_of) : sel.any_of[j] \in keys

Successor(g, node) ==
    IF \E j \in 1..Len(g.edges) : g.edges[j][1] = node
    THEN LET j == CHOOSE j \in 1..Len(g.edges) : g.edges[j][1] = node
         IN  g.edges[j][2]
    ELSE "None"

\* self.prompt, the question
UserPrompt == [text |-> "question"]

\* line 183: inputs = {"user_prompt": self.prompt, self.input_key: self.source}
SeedState(key, src) ==
    ("user_prompt" :> UserPrompt) @@ (key :> [locator |-> src])

\* the first operand of the | list that is in the state
Selected(sel, keys) ==
    sel.any_of[CHOOSE j \in 1..Len(sel.any_of) :
                  /\ sel.any_of[j] \in keys
                  /\ \A l \in 1..(j - 1) : sel.any_of[l] \notin keys]

\* what a node writes under its output keys: which node wrote it and which
\* key its content input was resolved to
NodeWrites(node, st) ==
    [k \in NodeOutput(node) |->
        [written_by |-> node,
         content_key |-> Selected(NodeInput(node), DOMAIN st)]]

\* run, lines 183-184: the inputs are seeded and the executor starts at the
\* entry point
RunBegins ==
    /\ gpc = "built"
    /\ state' = SeedState(input_key, source)
    /\ current' = graph.entry_point
    /\ gpc' = "running"
    /\ UNCHANGED <<nodeVars, execVars, html_mode, reasoning, source,
                   input_key, graph, run_result>>

StageSucceeds ==
    /\ gpc = "running"
    /\ current # "None"
    /\ Resolvable(NodeInput(current), DOMAIN state)
    /\ state' = NodeWrites(current, state) @@ state
    /\ current' = Successor(graph, current)
    /\ UNCHANGED <<nodeVars, execVars, html_mode, reasoning, source,
                   input_key, graph, gpc, run_result>>

StageFails ==
    /\ gpc = "running"
    /\ current # "None"
    /\ gpc' = "failed"
    /\ run_result' =
           IF Resolvable(NodeInput(current), DOMAIN state)
           THEN [kind |-> "raised", error |-> "StageError"]
           ELSE [kind |-> "raised", error |-> "MissingInputError"]
    /\ UNCHANGED <<nodeVars, execVars, html_mode, reasoning, source,
                   input_key, graph, state, current>>

\* line 186: self.final_state.get("answer", "No answer found.")
RunResult_Subscript(final_state) ==
    IF "answer" \in DOMAIN final_state
    THEN [kind |-> "value", value |-> final_state["answer"]]
    ELSE [kind |-> "raised", error |-> "KeyError"]

RunResult(final_state) ==
    IF "answer" \in DOMAIN final_state
    THEN [kind |-> "value", value |-> final_state["answer"]]
    ELSE [kind |-> "value", value |-> [text |-> "No answer found."]]

\* run, lines 184-186: execute returned the final state
RunReturns ==
    /\ gpc = "running"
    /\ current = "None"
    /\ gpc' = "finished"
    /\ run_result' = RunResult(state)
    /\ UNCHANGED <<nodeVars, execVars, html_mode, reasoning, source,
                   input_key, graph, state, current>>

NextGraph ==
    \/ Construct
    \/ RunBegins
    \/ StageSucceeds
    \/ StageFails
    \/ RunReturns

\* source locators: "https://e", "http://e", "ftp://e", "/d/f", "httpd", ""
Locators ==
    { <<"h", "t", "t", "p", "s", ":", "/", "/", "e">>,
      <<"h", "t", "t", "p", ":", "/", "/", "e">>,
      <<"f", "t", "p", ":", "/", "/", "e">>,
      <<"/", "d", "/", "f">>,
      <<"h", "t", "t", "p", "d">>,
      <<>> }

InitGraph ==
    /\ html_mode \in FlagValues
    /\ reasoning \in FlagValues
    /\ source \in Locators
    /\ input_key = "unset"
    /\ graph = NoGraph
    /\ gpc = "new"
    /\ state = <<>>
    /\ current = "None"
    /\ run_result = NotReturned
    /\ llm_model = "ChatOpenAI"
    /\ schema = FALSE
    /\ force = FALSE
    /\ script_creator = FALSE
    /\ is_md_scraper = FALSE
    /\ doc = <<>>
    /\ ExecIdle

SpecGraph == InitGraph /\ [][NextGraph]_vars

(***************************************************************************)
(* run as a function of what the executor hands back (lines 184-186).      *)
(* graph.execute is a collaborator of run: its final state is the seeded   *)
(* state plus any of the keys the nodes declare as outputs.                *)
(***************************************************************************)
OutputKeys == {"doc", "parsed_doc", "relevant_chunks", "answer"}

ExecutorFinalStates(key, src) ==
    { [k \in K |-> [written_by |-> w, content_key |-> "doc"]]
          @@ SeedState(key, src) :
        K \in SUBSET OutputKeys,
        w \in {"ReasoningNode", "GenerateAnswerNode"} }

InitRun ==
    /\ html_mode = "None"
    /\ reasoning = "None"
    /\ source \in Locators
    /\ input_key = InputKey(source)
    /\ graph = CreateGraph(html_mode, reasoning)
    /\ gpc = "running"
    /\ state \in ExecutorFinalStates(input_key, source)
    /\ current = "None"
    /\ run_result = NotReturned
    /\ llm_model = "ChatOpenAI"
    /\ schema = FALSE
    /\ force = FALSE
    /\ script_creator = FALSE
    /\ is_md_scraper = FALSE
    /\ doc = <<>>
    /\ ExecIdle

NextRun == RunReturns

SpecRun == InitRun /\ [][NextRun]_vars

(***************************************************************************)
(* Properties of SmartScraperGraph._create_graph                           *)
(***************************************************************************)
\* the chain Fetch -> ... -> Synthesize over a list of stages
ChainOf(stages) ==
    [nodes |-> stages,
     edges |-> [j \in 1..(Len(stages) - 1) |-> <<stages[j], stages[j + 1]>>],
     entry_point |-> "FetchNode"]

\* the decision table of the specification, over booleans
TableTopology(hm, rs) ==
    CASE ~hm /\ rs ->
           <<"FetchNode", "ParseNode", "ReasoningNode", "GenerateAnswerNode">>
      [] hm /\ rs -> <<"FetchNode", "ReasoningNode", "GenerateAnswerNode">>
      [] hm /\ ~rs -> <<"FetchNode", "GenerateAnswerNode">>
      [] ~hm /\ ~rs -> <<"FetchNode", "ParseNode", "GenerateAnswerNode">>

\* C2: for each of the four explicit boolean combinations of (html_mode,
\* reasoning) the graph built is exactly the chain of the decision table,
\* node list, edge list and entry point.
C2_ExplicitFlagsFollowTable ==
    (gpc \notin {"new", "unused"} /\ html_mode # "None" /\ reasoning # "None") =>
        graph = ChainOf(TableTopology(html_mode = "True", reasoning = "True"))

C2_Witness ==
    /\ gpc = "built"
    /\ html_mode = "True"
    /\ reasoning = "True"
    /\ graph.nodes = <<"FetchNode", "ReasoningNode", "GenerateAnswerNode">>

\* C3: a configuration that omits html_mode or reasoning gets the topology
\* of the table row of the defaults html_mode = true, reasoning = false, so
\* every configuration maps to the row of its effective flag values.
C3_OmittedFlagsTakeDefaults ==
    gpc \notin {"new", "unused"} =>
        graph = ChainOf(TableTopology(
                    IF html_mode = "None" THEN TRUE ELSE html_mode = "True",
                    IF reasoning = "None" THEN FALSE ELSE reasoning = "True"))

(***************************************************************************)
(* Properties of GenerateAnswerNode.execute                                *)
(***************************************************************************)

\* C1: a successful execution over n >= 2 chunks has invoked the capability
\* exactly n times through the chunk chains and exactly once for the merge
\* (n + 1 invocations in total).
C1_NChunkCallsOneMerge ==
    (pc = "done" /\ Len(doc) >= 2) =>
        /\ ChunkInvocations = Len(doc)
        /\ merge_calls = 1
        /\ ChunkInvocations + merge_calls + single_calls = Len(doc) + 1

\* C4: in the multi-chunk path the context handed to the merge invocation
\* has one entry per chunk, in chunk order: entry i holds only results the
\* capability produced for chunk i, whatever the completion order was.
C4_MergeContextInChunkOrder ==
    merge_calls > 0 =>
        /\ Len(merge_context) = Len(doc)
        /\ \A i \in 1..Len(doc) :
             \A k \in DOMAIN merge_context[i] :
                /\ merge_context[i][k].chunk_id = i
                /\ merge_context[i][k].context = doc[i]

\* a merge that was started although the batch inputs completed out of order
C4_Witness ==
    /\ pc = "merge"
    /\ Len(doc) = 3
    /\ completion_order = <<3, 1, 2>>

\* C5: the merge invocation is never started while a chunk invocation is
\* still pending.
C5_MergeAfterAllChunks ==
    merge_calls > 0 =>
        \A i \in 1..Len(doc) : finished[i] = NumChains(doc)

C5_Witness ==
    /\ pc = "merge"
    /\ Len(doc) >= 2
    /\ ChunkInvocations > 0

\* C6: once the capability has failed for a chunk, execute performs no merge
\* invocation, never writes the answer key and never returns normally: it
\* can only raise; no substitute stands in for the failed chunk in
\* batch_results.
C6_FailedChunkAborts ==
    /\ (\E i \in 1..Len(failed) : failed[i]) =>
          /\ merge_calls = 0
          /\ batch_results = <<>>
          /\ answer = NoAnswer
          /\ pc \in {"batch", "raised"}
    /\ pc = "raised" => answer = NoAnswer

\* chunk 2 of 3 failed, the other two succeeded, and execute raised
C6_Witness ==
    /\ pc = "raised"
    /\ Len(doc) = 3
    /\ failed = <<FALSE, TRUE, FALSE>>
    /\ merge_calls = 0

\* C7: with exactly one chunk, execute invokes the capability once in total,
\* performs no merge invocation and writes that single result to the output
\* key.
C7_SingleChunkNoMerge ==
    Len(doc) = 1 =>
        /\ merge_calls = 0
        /\ ChunkInvocations = 0
        /\ pc \notin {"batch", "merge"}
        /\ pc \in {"single", "done", "raised"} => single_calls = 1
        /\ pc = "done" => answer = [kind |-> "single", context |-> doc[1]]

C7_Witness ==
    /\ pc = "done"
    /\ Len(doc) = 1
    /\ single_calls = 1
    /\ answer.kind = "single"

\* C8: for a stage entered with a capability handle, the parser selection is
\* the four-branch decision tree over (schema supplied, native structured
\* output, textual format instructions):
\*  (1) native and schema: structured-output mode, format instructions not
\*      derived from a parser;
\*  (2) schema, text-capable, not native: schema-validating parser and its
\*      format instructions;
\*  (3) no schema, text-capable: generic JSON parser and its instructions;
\*  (4) otherwise: no parser, empty format instructions.
C8_ParserDecisionTree ==
    (pc # "idle" /\ llm_in \in LLMClasses) =>
        LET native == SupportsNativeStructuredOutput(llm_in)
            text == SupportsTextFormatInstructions(llm_in)
        IN  CASE native /\ schema ->
                   /\ llm_model = StructuredWrapper
                   /\ format_instructions \notin
                          {"pydantic_format_instructions",
                           "json_format_instructions"}
              [] schema /\ text /\ ~native ->
                   /\ llm_model = llm_in
                   /\ output_parser = "pydantic_output_parser"
                   /\ format_instructions = "pydantic_format_instructions"
              [] ~schema /\ text ->
                   /\ llm_model = llm_in
                   /\ output_parser = "JsonOutputParser"
                   /\ format_instructions = "json_format_instructions"
              [] OTHER ->
                   /\ llm_model = llm_in
                   /\ output_parser = "None"
                   /\ format_instructions = ""

\* branch (4) taken although a schema was supplied
C8_Witness ==
    /\ pc = "done"
    /\ llm_in = "ChatBedrock"
    /\ schema
    /\ output_parser = "None"

\* C9: in script-creation mode the markdown-tailored family is never
\* selected.
C9_NoMarkdownInScriptCreation ==
    (pc # "idle" /\ script_creator) => template_family # "MD"

\* C10: the family selected does not depend on whether a schema is supplied:
\* it is the family execute selects for the same handle and flags with the
\* schema supplied the other way.
C10_FamilyIndependentOfSchema ==
    pc # "idle" =>
        template_family =
            TemplateFamily(LlmAfterSelection(llm_in, ~schema),
                           force, script_creator, is_md_scraper)

(***************************************************************************)
(* Properties of the pipeline SmartScraperGraph builds and runs            *)
(***************************************************************************)
HasNode(g, node) == \E j \in 1..Len(g.nodes) : g.nodes[j] = node

Built == gpc \in {"built", "running", "finished", "failed"}

\* C11: in every topology with the Reason stage, a key Reason writes is one
\* of the operands of the | list of the Synthesize stage's input.
C11_ReasonOutputFeedsSynthesize ==
    (Built /\ HasNode(graph, "ReasoningNode")) =>
        \E k \in NodeOutput("ReasoningNode") :
            \E j \in 1..Len(NodeInput("GenerateAnswerNode").any_of) :
                NodeInput("GenerateAnswerNode").any_of[j] = k

\* a URL scheme prefix: one or more letters followed by "://"
SchemeLetters == {"h", "t", "p", "s", "f", "d", "e"}

HasSchemePrefix(str) ==
    \E n \in 1..Len(str) :
        /\ \A j \in 1..n : str[j] \in SchemeLetters
        /\ Len(str) >= n + 3
        /\ SubSeq(str, n + 1, n + 3) = <<":", "/", "/">>

Seeded == gpc \in {"running", "finished", "failed"}

\* C12: the initial state holds user_prompt = the question and exactly one
\* locator key holding the source: url when the locator starts with a URL
\* scheme prefix, local_dir otherwise.
C12_SeedByScheme ==
    Seeded =>
        /\ state["user_prompt"] = UserPrompt
        /\ LET key == IF HasSchemePrefix(source) THEN "url" ELSE "local_dir"
           IN  /\ DOMAIN state \cap {"url", "local_dir"} = {key}
               /\ state[key] = [locator |-> source]

\* C13: run returns the value of key answer of the final state when the key
\* is present, and returns the literal "No answer found.", without raising,
\* when the executor completed with no answer key.
C13_RunReturnsAnswerOrSentinel ==
    gpc = "finished" =>
        /\ run_result.kind = "value"
        /\ "answer" \in DOMAIN state => run_result.value = state["answer"]
        /\ "answer" \notin DOMAIN state =>
               run_result.value = [text |-> "No answer found."]

\* the executor completed without an answer key and run returned the literal
C13_Witness ==
    /\ gpc = "finished"
    /\ "answer" \notin DOMAIN state
    /\ run_result = [kind |-> "value", value |-> [text |-> "No answer found."]]

NodeSet(g) == {g.nodes[j] : j \in 1..Len(g.nodes)}

EdgesInto(g, node) == {j \in 1..Len(g.edges) : g.edges[j][2] = node}

EdgesOutOf(g, node) == {j \in 1..Len(g.edges) : g.edges[j][1] = node}

\* the nodes reached from the set `from` along at most k edges
RECURSIVE ReachedWithin(_, _, _)
ReachedWithin(g, from, k) ==
    IF k = 0
    THEN from
    ELSE ReachedWithin(
             g,
             from \cup {g.edges[j][2] :
                           j \in {l \in 1..Len(g.edges) : g.edges[l][1] \in from}},
             k - 1)

\* C15: every graph _create_graph returns is one acyclic linear chain: the
\* entry stage Fetch has no incoming edge, every other stage of the node
\* list has exactly one incoming edge and is reached from Fetch, no stage
\* has two outgoing edges, the last stage is Synthesize, and every stage an
\* edge names is in the node list.
C15_LinearChain ==
    Built =>
        /\ graph.entry_point = "FetchNode"
        /\ "FetchNode" \in NodeSet(graph)
        /\ Cardinality(NodeSet(graph)) = Len(graph.nodes)
        /\ EdgesInto(graph, "FetchNode") = {}
        /\ \A node \in NodeSet(graph) \ {"FetchNode"} :
              Cardinality(EdgesInto(graph, node)) = 1
        /\ \A node \in NodeSet(graph) :
              Cardinality(EdgesOutOf(graph, node)) <= 1
        /\ ReachedWithin(graph, {"FetchNode"}, Len(graph.nodes)) =
               NodeSet(graph)
        /\ graph.nodes[Len(graph.nodes)] = "GenerateAnswerNode"
        /\ EdgesOutOf(graph, "GenerateAnswerNode") = {}
        /\ \A j \in 1..Len(graph.edges) :
              /\ graph.edges[j][1] \in NodeSet(graph)
              /\ graph.edges[j][2] \in NodeSet(graph)

\* the longest chain: html_mode = False, reasoning = True
C15_Witness ==
    /\ gpc = "built"
    /\ html_mode = "False"
    /\ reasoning = "True"
    /\ Len(graph.nodes) = 4
    /\ Len(graph.edges) = 3

\* C16: whatever the topology and the source locator, each stage's input
\* expression is resolvable against the state at the moment the stage runs,
\* so no run fails on a missing input.
C16_InputsResolvable ==
    /\ (gpc = "running" /\ current # "None") =>
           Resolvable(NodeInput(current), DOMAIN state)
    /\ gpc = "failed" => run_result.error # "MissingInputError"

\* Synthesize about to run after Reason, on a run seeded with local_dir
C16_Witness ==
    /\ gpc = "running"
    /\ current = "GenerateAnswerNode"
    /\ HasNode(graph, "ReasoningNode")
    /\ "local_dir" \in DOMAIN state
    /\ "answer" \in DOMAIN state

\* C17: with the | list resolved in declared order, the content Synthesize
\* consumes is parsed_doc in every topology that contains Parse and doc in
\* every topology that does not; no stage writes relevant_chunks.
C17_SynthesizeContent ==
    Seeded =>
        /\ "relevant_chunks" \notin DOMAIN state
        /\ ("answer" \in DOMAIN state
              /\ state["answer"].written_by = "GenerateAnswerNode") =>
               state["answer"].content_key =
                   IF HasNode(graph, "ParseNode") THEN "parsed_doc" ELSE "doc"

\* Synthesize ran in a topology with Parse and consumed parsed_doc
C17_Witness ==
    /\ gpc = "finished"
    /\ HasNode(graph, "ParseNode")
    /\ state["answer"] = [written_by |-> "GenerateAnswerNode",
                          content_key |-> "parsed_doc"]

(***************************************************************************)
(* Further properties of GenerateAnswerNode.execute                        *)
(***************************************************************************)
\* C14: the markdown-tailored family is selected if and only if the
\* markdown-content flag or the force flag is set and the stage is not in
\* script-creation mode; with both flags unset the plain family is selected
\* for every capability.
C14_MarkdownIffFlagAndNotScript ==
    pc # "idle" =>
        (template_family = "MD" <=>
            ((is_md_scraper \/ force) /\ ~script_creator))

\* C18: a repeated execution of the same node instance with the same
\* configuration selects the same parser branch and the same template family
\* as the execution before it.
C18_SameSelectionEveryExecution ==
    (pc # "idle" /\ previous.kind = "selection") =>
        /\ output_parser = previous.output_parser
        /\ format_instructions = previous.format_instructions
        /\ template_family = previous.template_family

\* the (batch input, chain label) pairs of the merge context
ContextEntries ==
    {e \in (1..Len(merge_context)) \X (1..Len(doc)) :
        e[2] \in DOMAIN merge_context[e[1]]}

\* C19: in the multi-chunk path every result in the merge context under the
\* label "chunk k" was produced from the k-th chunk, and each chunk's
\* content was submitted to the capability under exactly one chunk label.
C19_LabelMatchesChunk ==
    merge_calls > 0 =>
        /\ \A e \in ContextEntries :
              merge_context[e[1]][e[2]].context = doc[e[2]]
        /\ \A c \in 1..Len(doc) :
              Cardinality({e \in ContextEntries :
                  merge_context[e[1]][e[2]].context = doc[c]}) = 1

\* C20: with an empty sequence of chunks execute takes the multi-chunk path:
\* no chunk invocation, exactly one merge invocation over an empty list of
\* results, whose result is written to the output key.
C20_EmptyDocMergesOnce ==
    (Len(doc) = 0 /\ pc # "idle") =>
        /\ pc \in {"batch", "merge", "done", "raised"}
        /\ single_calls = 0
        /\ ChunkInvocations = 0
        /\ pc = "batch" => merge_calls = 0
        /\ pc \in {"merge", "done", "raised"} =>
               (merge_calls = 1 /\ merge_context = <<>>)
        /\ pc = "done" => answer = [kind |-> "merge", context |-> <<>>]

C20_Witness ==
    /\ pc = "done"
    /\ Len(doc) = 0
    /\ merge_calls = 1
    /\ answer = [kind |-> "merge", context |-> <<>>]

====
